---- MODULE Spec2Model ----
(***************************************************************************)
(* A model of the game-search analysis gateway: the standalone server      *)
(* (src/server.js) and the two serverless handlers (src/api/analyze.js and *)
(* src/unnamed/part_000), their shared Remote Model Client postArk and     *)
(* the text extractor extractTextFromResponse.                             *)
(***************************************************************************)
EXTENDS Integers, Sequences, FiniteSets, TLC

VARIABLES
    cfg,    \* process-wide configuration (environment, "API key.txt"), read-only
    ark,    \* the responses the remote endpoint may give (status, raw body)
    req,    \* req[r]: the HTTP request r as received (method, body)
    st,     \* st[r]: the locals of the handler invocation serving r
    calls,  \* calls[r]: the outbound postArk calls of r, in issue order
    wire,   \* wire[r]: the last execution of postArk's res.on("end") handler
    resp,   \* resp[r]: the responses written to r's socket, in order
    ex      \* input and result of a direct extractTextFromResponse application

vars == <<cfg, ark, req, st, calls, wire, resp, ex>>

(***************************************************************************)
(* Bounds of the model.                                                    *)
(***************************************************************************)
\* number of concurrently served requests in SpecConc
NumReq == 2
\* longest array in a response object given to the extractor
MaxItems == 2
\* how far above the upper image bound the request inputs go
ExtraImages == 1

(***************************************************************************)
(* JavaScript values.  A string is a sequence of characters, an object a   *)
(* function from its property names to values.                             *)
(***************************************************************************)
Undef == [t |-> "undefined"]
Null == [t |-> "null"]
Str(s) == [t |-> "string", v |-> s]
Num(n) == [t |-> "number", v |-> n]
Arr(s) == [t |-> "array", v |-> s]
Obj(f) == [t |-> "object", v |-> f]

\* ToBoolean: what `if (x)` and `x || y` test
Truthy(x) ==
    CASE x.t \in {"undefined", "null"} -> FALSE
      [] x.t = "string" -> x.v # <<>>
      [] x.t = "number" -> x.v # 0
      [] OTHER -> TRUE

\* the property read x.k of a value that is neither null nor undefined
Get(x, k) ==
    IF x.t = "object" /\ k \in DOMAIN x.v THEN x.v[k] ELSE Undef

\* the optional chain x?.k
OptGet(x, k) ==
    IF x.t \in {"undefined", "null"} THEN Undef ELSE Get(x, k)

IsArray(x) == x.t = "array"

LF == "\n"
WhiteSpace == {" ", LF}

RECURSIVE TrimStart(_)
TrimStart(s) ==
    IF s # <<>> /\ Head(s) \in WhiteSpace THEN TrimStart(Tail(s)) ELSE s

RECURSIVE TrimEnd(_)
TrimEnd(s) ==
    IF s # <<>> /\ s[Len(s)] \in WhiteSpace
    THEN TrimEnd(SubSeq(s, 1, Len(s) - 1))
    ELSE s

\* String.prototype.trim
Trim(s) == TrimEnd(TrimStart(s))

Digits == <<"0", "1", "2", "3", "4", "5", "6", "7", "8", "9">>

\* ToString of an element inside Array.prototype.join
ToStr(x) ==
    CASE x.t = "string" -> x.v
      [] x.t = "number" -> <<Digits[x.v + 1]>>
      [] x.t \in {"undefined", "null"} -> <<>>
      [] OTHER -> <<"[object Object]">>

\* Array.prototype.join with separator sep
RECURSIVE Join(_, _)
Join(xs, sep) ==
    IF xs = <<>> THEN <<>>
    ELSE IF Len(xs) = 1 THEN ToStr(xs[1])
    ELSE ToStr(xs[1]) \o sep \o Join(Tail(xs), sep)

(***************************************************************************)
(* extractTextFromResponse.  The result is [threw, text]: threw is TRUE    *)
(* when the call ends in a TypeError, text is the returned string.         *)
(***************************************************************************)
\* the inner forEach over item.content: the truthy content.text values
RECURSIVE ContentTexts(_)
ContentTexts(parts) ==
    IF parts = <<>> THEN <<>>
    ELSE LET text == OptGet(parts[1], "text")
         IN (IF Truthy(text) THEN <<text>> ELSE <<>>) \o ContentTexts(Tail(parts))

\* one step of data.output.forEach: item.content.forEach exists only on arrays
ItemTexts(item) ==
    LET content == OptGet(item, "content")
    IN IF ~Truthy(content) THEN [threw |-> FALSE, c |-> <<>>]
       ELSE IF ~IsArray(content) THEN [threw |-> TRUE, c |-> <<>>]
       ELSE [threw |-> FALSE, c |-> ContentTexts(content.v)]

RECURSIVE OutputTexts(_)
OutputTexts(items) ==
    IF items = <<>> THEN [threw |-> FALSE, c |-> <<>>]
    ELSE LET first == ItemTexts(items[1])
         IN IF first.threw THEN first
            ELSE LET rest == OutputTexts(Tail(items))
                 IN [threw |-> rest.threw, c |-> first.c \o rest.c]

RECURSIVE ChoiceTexts(_)
ChoiceTexts(choices) ==
    IF choices = <<>> THEN <<>>
    ELSE LET content == OptGet(OptGet(choices[1], "message"), "content")
         IN (IF Truthy(content) THEN <<content>> ELSE <<>>)
            \o ChoiceTexts(Tail(choices))

extractTextFromResponse(data) ==
    LET top == IF Truthy(data) /\ Truthy(Get(data, "output_text"))
               THEN <<Get(data, "output_text")>> ELSE <<>>
        output == OptGet(data, "output")
        out == IF IsArray(output) THEN OutputTexts(output.v)
               ELSE [threw |-> FALSE, c |-> <<>>]
        choices == OptGet(data, "choices")
        ch == IF IsArray(choices) THEN ChoiceTexts(choices.v) ELSE <<>>
    IN IF out.threw THEN [threw |-> TRUE, text |-> <<>>]
       ELSE [threw |-> FALSE, text |-> Trim(Join(top \o out.c \o ch, <<LF>>))]

\* a || b on strings
Or(a, b) == IF a # <<>> THEN a ELSE b

(***************************************************************************)
(* Program constants.                                                      *)
(***************************************************************************)
\* src/server.js: images.length < 5
ServerMinImages == 5
\* src/api/analyze.js and src/unnamed/part_000: images.length < 2
HandlerMinImages == 2
\* all three: images.length > 9
MaxImages == 9

Variants == {"server", "api", "single"}

MinImages(variant) ==
    IF variant = "server" THEN ServerMinImages ELSE HandlerMinImages

\* a faulty image-count test: an upper bound that is off by one
OutOfBoundWide(n, lo, hi) == n < lo \/ n > hi + 1
\* the image-count test of the three handlers:
\* images.length < lo || images.length > hi
OutOfBound(n, lo, hi) == n < lo \/ n > hi

(***************************************************************************)
(* Configuration.  Identifiers are strings; <<>> is an unset variable or   *)
(* a file without the entry.                                               *)
(***************************************************************************)
Unset == <<>>

\* getApiKey of src/server.js: the environment first, then "API key.txt"
getApiKey(c) ==
    IF c.envKey # Unset THEN Trim(c.envKey) ELSE Trim(c.fileKey)

\* apiKey of the serverless handlers
HandlerApiKey(c) == Trim(Or(c.envKey, Unset))

\* ENV_VISION_MODEL and ENV_THINKING_MODEL of src/server.js
ENV_VISION_MODEL(c) == Trim(Or(c.envVision, Unset))
ENV_THINKING_MODEL(c) == Trim(Or(c.envThinking, Unset))

\* getModelFromFile().visionModel
getModelFromFile(c) == Trim(c.fileModel)

\* visionModel and thinkingModel of handleAnalyze (src/server.js)
ServerVisionModel(c, body) ==
    Trim(Or(Or(body.visionModel, ENV_VISION_MODEL(c)), getModelFromFile(c)))

ServerThinkingModel(c, body) ==
    Trim(Or(Or(Or(body.thinkingModel, ENV_THINKING_MODEL(c)), getModelFromFile(c)),
            ServerVisionModel(c, body)))

\* visionModel and thinkingModel of the serverless handlers
HandlerVisionModel(c) == Trim(Or(Or(c.envVision, c.envModel), Unset))

HandlerThinkingModel(c) == Trim(Or(c.envThinking, HandlerVisionModel(c)))

(***************************************************************************)
(* Requests, error messages, responses.                                    *)
(***************************************************************************)
Methods == {"POST", "GET", "PUT"}

\* body.images: not an array (or missing), or an array of n image strings
NotArray == [isArray |-> FALSE, length |-> 0]
ImageList(n) == [isArray |-> TRUE, length |-> n]

\* Array.isArray(body?.images) ? body.images : [], then images.length
ImageCount(body) == IF body.images.isArray THEN body.images.length ELSE 0

ErrMissingKey == [m |-> "ARK_API_KEY missing"]
ErrMissingModel == [m |-> "model id missing"]
ErrBodyTooLarge == [m |-> "request body too large"]
ErrBodyNotJson == [m |-> "request body is not JSON"]
ErrImageCount == [m |-> "image count out of bound"]
ErrMethod == [m |-> "Method Not Allowed"]
ErrArkStatus(status, raw) == [m |-> "model request failed", status |-> status, raw |-> raw]
ErrArkNonJson == [m |-> "model returned non-JSON"]
ErrArkTimeout == [m |-> "model request timed out"]
ErrArkNetwork == [m |-> "socket hang up"]
ErrTypeError == [m |-> "item.content.forEach is not a function"]

\* the fallback texts of the handlers
FallbackVisionPrompt == <<"describe the screenshot">>
FallbackThinkingPrompt == <<"give the game analysis">>
DefaultVisionPrompt == <<"DEFAULT_VISION_PROMPT">>
DefaultThinkingPrompt == <<"DEFAULT_THINKING_PROMPT">>
DefaultAnalysisPrompt == <<"DEFAULT_ANALYSIS_PROMPT">>
NoVisionText == <<"no recognition result">>
NoVisionSummary == <<"no vision result">>
NoModelOutput == <<"no model output">>

\* the promise of an unsettled postArk call, seen as a value
PendingPromise == Obj(<<>>)

\* parseJsonBody (src/server.js) and parseBody (serverless) once the body
\* has been read: [ok, value] or [ok, err]
parseJsonBody(body) ==
    IF body.kind = "toolarge" THEN [ok |-> FALSE, err |-> ErrBodyTooLarge]
    ELSE IF body.kind = "invalid" THEN [ok |-> FALSE, err |-> ErrBodyNotJson]
    ELSE [ok |-> TRUE, value |-> body]

parseBody(rq) ==
    IF rq.preparsed THEN [ok |-> TRUE, value |-> rq.body]
    ELSE parseJsonBody(rq.body)

NewLocals ==
    [pc |-> "new", apiKey |-> Unset, n |-> 0, visionModel |-> Unset,
     thinkingModel |-> Unset, visionPrompt |-> <<>>, thinkingPrompt |-> <<>>,
     i |-> 0, visionResults |-> <<>>]

NewCall(step, idx, model, nimg, prompt, input) ==
    [step |-> step, idx |-> idx, model |-> model, nimg |-> nimg,
     prompt |-> prompt, input |-> input,
     state |-> "inflight", result |-> PendingPromise]

NoWire == [call |-> 0]

\* sendJson(res, status, payload) followed by the handler's return
SendJson(r, status, payload) ==
    /\ resp' = [resp EXCEPT ![r] =
                   Append(@, [status |-> status, type |-> "json", body |-> payload])]
    /\ st' = [st EXCEPT ![r].pc = "done"]
    /\ UNCHANGED <<calls, wire>>

\* sendText(res, status, text)
SendText(r, status, text) ==
    /\ resp' = [resp EXCEPT ![r] =
                   Append(@, [status |-> status, type |-> "text", body |-> [text |-> text]])]
    /\ st' = [st EXCEPT ![r].pc = "done"]
    /\ UNCHANGED <<calls, wire>>

\* postArk(...) up to req.end(), and the await that suspends the handler
IssueCall(r, s, call) ==
    /\ calls' = [calls EXCEPT ![r] = Append(@, call)]
    /\ st' = [st EXCEPT ![r] = s]
    /\ UNCHANGED <<resp, wire>>

(***************************************************************************)
(* Remote Model Client: postArk's response handler.                        *)
(***************************************************************************)
\* a faulty status test: redirects taken for success
StatusRejectedFrom400(status) == status < 200 \/ status >= 400
\* res.statusCode < 200 || res.statusCode >= 300
StatusRejected(status) == status < 200 \/ status >= 300

\* JSON.parse(raw): raw.valid says whether raw is JSON text, raw.data is its value
JsonParse(raw) ==
    IF raw.valid THEN [ok |-> TRUE, value |-> raw.data] ELSE [ok |-> FALSE]

\* the res.on("end") handler: how the promise settles, and whether
\* JSON.parse was reached
postArkEnd(status, raw) ==
    IF StatusRejected(status)
    THEN [state |-> "rejected", result |-> ErrArkStatus(status, raw), parsed |-> FALSE]
    ELSE LET p == JsonParse(raw)
         IN IF p.ok
            THEN [state |-> "resolved", result |-> p.value, parsed |-> TRUE]
            ELSE [state |-> "rejected", result |-> ErrArkNonJson, parsed |-> TRUE]

\* the response of some in-flight call of r has been read to its end
ArkEnd(r) ==
    \E k \in 1..Len(calls[r]) : \E o \in ark :
        /\ calls[r][k].state = "inflight"
        /\ LET e == postArkEnd(o.status, o.raw)
           IN /\ calls' = [calls EXCEPT ![r][k].state = e.state,
                                        ![r][k].result = e.result]
              /\ wire' = [wire EXCEPT ![r] =
                            [call |-> k, status |-> o.status, raw |-> o.raw,
                             parsed |-> e.parsed, state |-> e.state,
                             result |-> e.result]]
        /\ UNCHANGED <<cfg, ark, req, st, resp, ex>>

\* req.on("error", reject): a network error, or the timeout's req.destroy(err)
ArkError(r) ==
    \E k \in 1..Len(calls[r]) : \E err \in {ErrArkTimeout, ErrArkNetwork} :
        /\ calls[r][k].state = "inflight"
        /\ calls' = [calls EXCEPT ![r][k].state = "rejected",
                                  ![r][k].result = err]
        /\ UNCHANGED <<cfg, ark, req, st, wire, resp, ex>>

(***************************************************************************)
(* Request Gateway: src/server.js.                                         *)
(***************************************************************************)
\* the http.createServer callback for a request to /api/analyze, and
\* handleAnalyze up to its first await
ServerRoute(r) ==
    /\ cfg.variant = "server"
    /\ st[r].pc = "new"
    /\ IF req[r].method = "POST"
       THEN LET apiKey == getApiKey(cfg)
            IN IF apiKey = <<>>
               THEN SendJson(r, 500, [error |-> ErrMissingKey])
               ELSE /\ st' = [st EXCEPT ![r].pc = "body", ![r].apiKey = apiKey]
                    /\ UNCHANGED <<calls, wire, resp>>
       ELSE IF req[r].method = "GET"
       THEN SendText(r, 404, "Not Found")
       ELSE SendText(r, 405, "Method Not Allowed")
    /\ UNCHANGED <<cfg, ark, req, ex>>

\* a faulty model check: && in place of ||
ModelMissingBoth(visionModel, thinkingModel) ==
    visionModel = <<>> /\ thinkingModel = <<>>
\* !visionModel || !thinkingModel
ModelMissing(visionModel, thinkingModel) ==
    visionModel = <<>> \/ thinkingModel = <<>>

\* a faulty loop condition: i < images.length - 1
VisionLoopDoneEarly(i, n) == ~(i < n - 1)
\* the loop condition i < images.length, negated
VisionLoopDone(i, n) == ~(i < n)

\* a faulty loop: every vision call started at once, awaited together
ServerLoopFanOut(r, s) ==
    /\ calls' = [calls EXCEPT ![r] =
                    @ \o [k \in 1..s.n |->
                            NewCall("vision", k, s.visionModel, 1,
                                    Or(s.visionPrompt, FallbackVisionPrompt), <<>>)]]
    /\ st' = [st EXCEPT ![r] = [s EXCEPT !.pc = "vision"]]
    /\ UNCHANGED <<resp, wire>>
\* handleAnalyze from the head of the for loop to the next await
ServerLoop(r, s) ==
    IF ~VisionLoopDone(s.i, s.n)
    THEN IssueCall(r, [s EXCEPT !.pc = "vision"],
                   NewCall("vision", s.i + 1, s.visionModel, 1,
                           Or(s.visionPrompt, FallbackVisionPrompt), <<>>))
    ELSE IssueCall(r, [s EXCEPT !.pc = "thinking"],
                   NewCall("thinking", 0, s.thinkingModel, 0,
                           Or(s.thinkingPrompt, FallbackThinkingPrompt),
                           s.visionResults))

\* handleAnalyze once parseJsonBody has settled, up to the next await
ServerBodyRead(r) ==
    /\ cfg.variant = "server"
    /\ st[r].pc = "body"
    /\ LET p == parseJsonBody(req[r].body)
       IN IF ~p.ok
          THEN SendJson(r, 400, [error |-> p.err])
          ELSE LET body == p.value
                   n == ImageCount(body)
                   visionModel == ServerVisionModel(cfg, body)
                   thinkingModel == ServerThinkingModel(cfg, body)
               IN IF OutOfBound(n, ServerMinImages, MaxImages)
                  THEN SendJson(r, 400, [error |-> ErrImageCount])
                  ELSE IF ModelMissing(visionModel, thinkingModel)
                  THEN SendJson(r, 400, [error |-> ErrMissingModel])
                  ELSE ServerLoop(r, [st[r] EXCEPT
                           !.n = n,
                           !.visionModel = visionModel,
                           !.thinkingModel = thinkingModel,
                           !.visionPrompt = Trim(Or(body.prompts.vision, <<>>)),
                           !.thinkingPrompt = Trim(Or(body.prompts.thinking, <<>>)),
                           !.i = 0,
                           !.visionResults = <<>>])
    /\ UNCHANGED <<cfg, ark, req, ex>>

(***************************************************************************)
(* Request Gateway: the serverless handlers.                               *)
(***************************************************************************)
\* module.exports up to its first await
HandlerEntry(r) ==
    /\ cfg.variant # "server"
    /\ st[r].pc = "new"
    /\ IF req[r].method # "POST"
       THEN SendJson(r, 405, [error |-> ErrMethod])
       ELSE LET apiKey == HandlerApiKey(cfg)
                visionModel == HandlerVisionModel(cfg)
                thinkingModel == HandlerThinkingModel(cfg)
            IN IF apiKey = <<>>
               THEN SendJson(r, 500, [error |-> ErrMissingKey])
               ELSE IF ModelMissing(visionModel, thinkingModel)
               THEN SendJson(r, 500, [error |-> ErrMissingModel])
               ELSE /\ st' = [st EXCEPT ![r].pc = "body",
                                        ![r].apiKey = apiKey,
                                        ![r].visionModel = visionModel,
                                        ![r].thinkingModel = thinkingModel]
                    /\ UNCHANGED <<calls, wire, resp>>
    /\ UNCHANGED <<cfg, ark, req, ex>>

\* module.exports once parseBody has settled, up to the next await
HandlerBodyRead(r) ==
    /\ cfg.variant # "server"
    /\ st[r].pc = "body"
    /\ LET p == parseBody(req[r])
       IN IF ~p.ok
          THEN SendJson(r, 400, [error |-> p.err])
          ELSE LET body == p.value
                   n == ImageCount(body)
                   s == [st[r] EXCEPT !.n = n]
               IN IF OutOfBound(n, HandlerMinImages, MaxImages)
                  THEN SendJson(r, 400, [error |-> ErrImageCount])
                  ELSE IF cfg.variant = "api"
                  THEN LET visionPrompt ==
                               Trim(Or(body.prompts.vision, DefaultVisionPrompt))
                           thinkingPrompt ==
                               Trim(Or(body.prompts.thinking, DefaultThinkingPrompt))
                       IN IssueCall(r, [s EXCEPT !.pc = "vision",
                                                 !.visionPrompt = visionPrompt,
                                                 !.thinkingPrompt = thinkingPrompt],
                                    NewCall("vision", 0, s.visionModel, n,
                                            Or(visionPrompt, FallbackVisionPrompt),
                                            <<>>))
                  ELSE LET analysisPrompt ==
                               Trim(Or(body.prompts.analysis, DefaultAnalysisPrompt))
                       IN IssueCall(r, [s EXCEPT !.pc = "analysis",
                                                 !.visionPrompt = analysisPrompt],
                                    NewCall("analysis", 0,
                                            Or(s.thinkingModel, s.visionModel), n,
                                            analysisPrompt, <<>>))
    /\ UNCHANGED <<cfg, ark, req, ex>>

(***************************************************************************)
(* The continuation of a handler after an awaited postArk call.            *)
(***************************************************************************)
\* a call that is not awaited: the handler goes on at once
NotAwaited(c) == TRUE
\* await: the handler resumes only once the awaited promise has settled
Awaited(c) == c.state # "inflight"

\* the code after a resolved call whose text has been extracted
OnText(r, text) ==
    LET s == st[r]
    IN CASE s.pc = "vision" /\ cfg.variant = "server" ->
              ServerLoop(r, [s EXCEPT
                  !.visionResults =
                      Append(@, [idx |-> s.i + 1, text |-> Or(text, NoVisionText)]),
                  !.i = s.i + 1])
         [] s.pc = "vision" /\ cfg.variant # "server" ->
              IssueCall(r, [s EXCEPT !.pc = "thinking"],
                        NewCall("thinking", 0, s.thinkingModel, 0,
                                Or(s.thinkingPrompt, FallbackThinkingPrompt),
                                <<[idx |-> 0, text |-> Or(text, NoVisionSummary)]>>))
         [] OTHER ->
              SendJson(r, 200, [resultText |-> Or(text, NoModelOutput)])

\* a faulty catch block: the rejection swallowed, taken for an empty result
OnRejectSkip(r, err) == OnText(r, <<>>)
\* a faulty handler: the 200 answer placed after the try statement, so that
\* the answer of the catch block is followed by a second one
OnRejectFallThrough(r, err) ==
    /\ resp' = [resp EXCEPT ![r] =
                   Append(Append(@, [status |-> 500, type |-> "json",
                                     body |-> [error |-> err]]),
                          [status |-> 200, type |-> "json",
                           body |-> [resultText |-> NoModelOutput]])]
    /\ st' = [st EXCEPT ![r].pc = "done"]
    /\ UNCHANGED <<calls, wire>>
\* the catch block of the handlers
OnReject(r, err) == SendJson(r, 500, [error |-> err])

Resume(r) ==
    /\ st[r].pc \in {"vision", "thinking", "analysis"}
    /\ LET c == calls[r][Len(calls[r])]
       IN /\ Awaited(c)
          /\ IF c.state = "rejected"
             THEN OnReject(r, c.result)
             ELSE LET x == extractTextFromResponse(c.result)
                  IN IF x.threw
                     THEN SendJson(r, 500, [error |-> ErrTypeError])
                     ELSE OnText(r, x.text)
    /\ UNCHANGED <<cfg, ark, req, ex>>

(***************************************************************************)
(* Inputs: what the remote endpoint answers, configurations, requests.     *)
(***************************************************************************)
\* {"choices":[{"message":{"content":"hello"}}]}
HelloData ==
    Obj([choices |->
        Arr(<<Obj([message |-> Obj([content |-> Str(<<"h", "e", "l", "l", "o">>)])])>>)])
\* {"output":[{"content":"x"}]}
BadShapeData == Obj([output |-> Arr(<<Obj([content |-> Str(<<"x">>)])>>)])
\* {}
EmptyData == Obj(<<>>)

RawHello == [valid |-> TRUE, data |-> HelloData]
RawBadShape == [valid |-> TRUE, data |-> BadShapeData]
RawEmpty == [valid |-> TRUE, data |-> EmptyData]
RawHtml == [valid |-> FALSE, data |-> Undef]

Statuses == {199, 200, 299, 300, 500}

\* an endpoint that answers any status with a text-bearing, an ill-shaped or
\* a non-JSON body
ArkMain == [status : Statuses, raw : {RawHello, RawBadShape, RawHtml}]
\* an endpoint whose answers carry no text
ArkEmpty == {[status |-> 200, raw |-> RawEmpty]}
\* an endpoint that answers 200 with text or 500 with a non-JSON body
ArkSmall == {[status |-> 200, raw |-> RawHello], [status |-> 500, raw |-> RawHtml]}

ServerConfigs ==
    [variant : {"server"},
     envKey : {Unset, <<"k">>}, fileKey : {Unset, <<"f">>},
     envVision : {Unset, <<"E">>}, envModel : {Unset},
     envThinking : {Unset, <<"T">>}, fileModel : {Unset, <<"F">>}]

HandlerConfigs ==
    [variant : {"api", "single"},
     envKey : {Unset, <<"k">>}, fileKey : {Unset},
     envVision : {Unset, <<"E">>}, envModel : {Unset, <<"M">>},
     envThinking : {Unset, <<"T">>}, fileModel : {Unset}]

Configs == ServerConfigs \cup HandlerConfigs

NoPrompts == [vision |-> <<>>, thinking |-> <<>>, analysis |-> <<>>]
CustomPrompts ==
    [vision |-> <<"my vision prompt">>, thinking |-> <<"my thinking prompt">>,
     analysis |-> <<"my analysis prompt">>]

EmptyBody ==
    [kind |-> "json", images |-> NotArray, visionModel |-> Unset,
     thinkingModel |-> Unset, prompts |-> NoPrompts]

ImageLists == {NotArray} \cup {ImageList(n) : n \in 0..(MaxImages + ExtraImages)}

JsonBodies(variant) ==
    [kind : {"json"}, images : ImageLists,
     visionModel : IF variant = "server" THEN {Unset, <<" ">>, <<"A">>} ELSE {Unset},
     thinkingModel : IF variant = "server" THEN {Unset, <<"B">>} ELSE {Unset},
     prompts : {NoPrompts, CustomPrompts}]

Requests(variant) ==
    {[method |-> m, preparsed |-> FALSE, body |-> EmptyBody] : m \in Methods \ {"POST"}}
    \cup {[method |-> "POST", preparsed |-> FALSE, body |-> [EmptyBody EXCEPT !.kind = k]] :
              k \in {"invalid", "toolarge"}}
    \cup {[method |-> "POST", preparsed |-> pp, body |-> b] :
              pp \in (IF variant = "server" THEN {FALSE} ELSE BOOLEAN),
              b \in JsonBodies(variant)}

NoEx == [in |-> Undef, out |-> [threw |-> FALSE, text |-> <<>>], done |-> FALSE]

InitRequests(n) ==
    /\ st = [r \in 1..n |-> NewLocals]
    /\ calls = [r \in 1..n |-> <<>>]
    /\ wire = [r \in 1..n |-> NoWire]
    /\ resp = [r \in 1..n |-> <<>>]

\* one request, any configuration, any request
Init ==
    /\ cfg \in Configs
    /\ ark \in {ArkMain, ArkEmpty}
    /\ req \in [1..1 -> Requests(cfg.variant)]
    /\ InitRequests(1)
    /\ ex = NoEx

\* the requests being served
Serving(r) == r \in DOMAIN req

Next ==
    \E r \in 1..NumReq :
        \/ Serving(r) /\ ServerRoute(r)
        \/ Serving(r) /\ ServerBodyRead(r)
        \/ Serving(r) /\ HandlerEntry(r)
        \/ Serving(r) /\ HandlerBodyRead(r)
        \/ Serving(r) /\ ArkEnd(r)
        \/ Serving(r) /\ ArkError(r)
        \/ Serving(r) /\ Resume(r)

Spec == Init /\ [][Next]_vars

(***************************************************************************)
(* Progress.  Node's event loop runs every callback and continuation that  *)
(* is ready: the request callback, the "end"/"data" handlers of the body   *)
(* once it has been read, the "end"/"error"/timeout handlers of an         *)
(* outbound call once it settles, and the code after an await whose        *)
(* promise has settled.  Each request's steps are therefore weakly fair.   *)
(***************************************************************************)
Step(r) ==
    /\ Serving(r)
    /\ \/ ServerRoute(r)
       \/ ServerBodyRead(r)
       \/ HandlerEntry(r)
       \/ HandlerBodyRead(r)
       \/ ArkEnd(r)
       \/ ArkError(r)
       \/ Resume(r)

Fairness == \A r \in 1..NumReq : WF_vars(Step(r))

\* a credential or none, a vision model or none, nothing in "API key.txt"
LiveConfigs ==
    {c \in Configs : /\ c.fileKey = Unset /\ c.envModel = Unset
                     /\ c.envThinking = Unset /\ c.fileModel = Unset}

\* a body that is too large, that is no JSON, and JSON bodies with no image
\* list, with the fewest images the variant accepts and with too many
LiveRequests(variant) ==
    {[method |-> "POST", preparsed |-> FALSE, body |-> [EmptyBody EXCEPT !.kind = k]] :
         k \in {"invalid", "toolarge"}}
    \cup {[method |-> "POST", preparsed |-> FALSE,
           body |-> [EmptyBody EXCEPT !.images = i]] :
              i \in {NotArray, ImageList(MinImages(variant)),
                     ImageList(MaxImages + ExtraImages)}}

InitLive ==
    /\ cfg \in LiveConfigs
    /\ ark \in {ArkMain, ArkEmpty}
    /\ req \in [1..1 -> LiveRequests(cfg.variant)]
    /\ InitRequests(1)
    /\ ex = NoEx

SpecLive == InitLive /\ [][Next]_vars /\ Fairness

(***************************************************************************)
(* Several requests served concurrently by one process.                    *)
(***************************************************************************)
\* a fully configured process of each variant
ConcConfigs ==
    {c \in Configs : /\ c.envKey # Unset /\ c.fileKey = Unset
                     /\ c.envVision # Unset /\ c.envModel = Unset
                     /\ c.envThinking # Unset /\ c.fileModel = Unset}

\* a request with the fewest images the variant accepts, or with none
ConcRequests(variant) ==
    {[method |-> "POST", preparsed |-> FALSE,
      body |-> [EmptyBody EXCEPT !.images = i]] :
         i \in {NotArray, ImageList(MinImages(variant))}}

InitConc ==
    /\ cfg \in ConcConfigs
    /\ ark = ArkSmall
    /\ req \in [1..NumReq -> ConcRequests(cfg.variant)]
    /\ InitRequests(NumReq)
    /\ ex = NoEx

SpecConc == InitConc /\ [][Next]_vars

(***************************************************************************)
(* extractTextFromResponse applied to one response object.                 *)
(***************************************************************************)
SeqsUpTo(S, n) == UNION {[1..k -> S] : k \in 0..n}

TextVals == {Undef, Str(<<>>), Str(<<"a">>), Str(<<" ", "b">>)}

ContentParts == {Null} \cup {Obj([text |-> t]) : t \in TextVals \ {Undef}}

OutputItems ==
    {Null}
    \cup {Obj([content |-> c]) : c \in {Undef, Str(<<"x">>)}}
    \cup {Obj([content |-> Arr(p)]) : p \in SeqsUpTo(ContentParts, MaxItems)}

OutputVals ==
    {Undef, Str(<<"x">>)} \cup {Arr(s) : s \in SeqsUpTo(OutputItems, MaxItems)}

ChoiceItems ==
    {Null}
    \cup {Obj([message |-> Obj([content |-> t])]) : t \in TextVals}

ChoicesVals == {Undef} \cup {Arr(s) : s \in SeqsUpTo(ChoiceItems, MaxItems)}

ResponseObjects ==
    {Obj([output_text |-> t, output |-> o, choices |-> c]) :
        t \in TextVals, o \in OutputVals, c \in ChoicesVals}

InitExtract ==
    /\ cfg \in {c \in ConcConfigs : c.variant = "server"}
    /\ ark = {}
    /\ req = <<>>
    /\ InitRequests(0)
    /\ \E d \in ResponseObjects : ex = [NoEx EXCEPT !.in = d]

\* const text = extractTextFromResponse(response)
Extract ==
    /\ ~ex.done
    /\ ex' = [ex EXCEPT !.out = extractTextFromResponse(ex.in), !.done = TRUE]
    /\ UNCHANGED <<cfg, ark, req, st, calls, wire, resp>>

NextExtract == Extract

SpecExtract == InitExtract /\ [][NextExtract]_vars

(***************************************************************************)
(* Properties.                                                             *)
(***************************************************************************)
Answered(r) == Len(resp[r]) >= 1
Answer(r) == resp[r][1]
IsPost(r) == req[r].method = "POST"
IsErrorAnswer(a) == a.type = "json" /\ DOMAIN a.body = {"error"}
IsResultAnswer(a) == a.type = "json" /\ DOMAIN a.body = {"resultText"}

\* the image count of the request: a body that is not JSON, or whose images
\* field is missing or no array, carries no images
Images(r) == IF req[r].body.kind = "json" THEN ImageCount(req[r].body) ELSE 0
InBound(r) == Images(r) \in MinImages(cfg.variant)..MaxImages

\* the credential and the model identifiers the request ends up with
KeyOf(r) == IF cfg.variant = "server" THEN getApiKey(cfg) ELSE HandlerApiKey(cfg)
VisionModelOf(r) ==
    IF cfg.variant = "server" THEN ServerVisionModel(cfg, req[r].body)
    ELSE HandlerVisionModel(cfg)
ThinkingModelOf(r) ==
    IF cfg.variant = "server" THEN ServerThinkingModel(cfg, req[r].body)
    ELSE HandlerThinkingModel(cfg)
KeyConfigured(r) == KeyOf(r) # <<>>
ModelsConfigured(r) == VisionModelOf(r) # <<>> /\ ThinkingModelOf(r) # <<>>
\* the configuration checks that precede the image-count check
ConfiguredBeforeBound(r) ==
    KeyConfigured(r) /\ (cfg.variant = "server" \/ ModelsConfigured(r))

CallsOf(r, step) == {k \in 1..Len(calls[r]) : calls[r][k].step = step}
Settled(c) == c.state \in {"resolved", "rejected"}

\* C1 as stated: every POST to the analyze endpoint with a JSON body whose
\* image count is outside the variant's bound is answered 400 and makes no
\* outbound call.
C1_AsStated ==
    \A r \in DOMAIN req :
        (IsPost(r) /\ req[r].body.kind = "json" /\ ~InBound(r)) =>
            /\ calls[r] = <<>>
            /\ Answered(r) => Answer(r).status = 400 /\ IsErrorAnswer(Answer(r))

\* C1 amended: such a request makes no outbound call; it is answered 400
\* when the configuration checks that run before the image-count check pass
\* (the credential, and in the serverless handlers the model identifiers),
\* and with the configuration error 500 otherwise.
C1_OutOfBoundRejected ==
    \A r \in DOMAIN req :
        (IsPost(r) /\ req[r].body.kind = "json" /\ ~InBound(r)) =>
            /\ calls[r] = <<>>
            /\ Answered(r) =>
                  /\ IsErrorAnswer(Answer(r))
                  /\ Answer(r).status = IF ConfiguredBeforeBound(r) THEN 400 ELSE 500
                  /\ Len(resp[r]) = 1

C1_Witness ==
    \E r \in DOMAIN req :
        /\ IsPost(r) /\ req[r].body.kind = "json"
        /\ Images(r) = MaxImages + 1
        /\ ConfiguredBeforeBound(r) /\ ModelsConfigured(r)
        /\ Answered(r) /\ Answer(r).status = 400
        /\ Answer(r).body.error = ErrImageCount
        /\ calls[r] = <<>>

\* a request the handler lets through to the Vision stage
WellFormed(r) ==
    /\ IsPost(r) /\ req[r].body.kind = "json" /\ InBound(r)
    /\ KeyConfigured(r) /\ ModelsConfigured(r)

\* C2 as stated: by the time a well-formed request is answered, the number
\* of Vision-stage calls is the image count (src/server.js) or one
\* (src/api/analyze.js).
C2_AsStated ==
    \A r \in DOMAIN req :
        (WellFormed(r) /\ Answered(r)) =>
            /\ cfg.variant = "server" => Cardinality(CallsOf(r, "vision")) = Images(r)
            /\ cfg.variant = "api" => Cardinality(CallsOf(r, "vision")) = 1

\* C2 amended: under the sequential policy the number of Vision-stage calls
\* equals the image count when the request is answered 200, and is the
\* number of calls up to the failing one (between 1 and the image count)
\* when it is answered with an error; under the batched policy it is one.
C2_VisionCallCount ==
    \A r \in DOMAIN req :
        (WellFormed(r) /\ Answered(r)) =>
            LET nv == Cardinality(CallsOf(r, "vision"))
            IN /\ cfg.variant = "server" =>
                     /\ Answer(r).status = 200 => nv = Images(r)
                     /\ nv \in 1..Images(r)
                     /\ \A k \in CallsOf(r, "vision") :
                            calls[r][k].idx = k /\ calls[r][k].nimg = 1
               /\ cfg.variant = "api" =>
                     /\ nv = 1
                     /\ \A k \in CallsOf(r, "vision") : calls[r][k].nimg = Images(r)

C2_Witness ==
    \E r \in DOMAIN req :
        /\ cfg.variant = "server" /\ WellFormed(r) /\ Images(r) = ServerMinImages
        /\ req[r].body.prompts = NoPrompts
        /\ Answered(r) /\ Answer(r).status = 200
        /\ Answer(r).body = [resultText |-> <<"h", "e", "l", "l", "o">>]
        /\ Cardinality(CallsOf(r, "vision")) = ServerMinImages
        /\ Cardinality(CallsOf(r, "thinking")) = 1
        /\ \A k \in CallsOf(r, "vision") : calls[r][k].prompt = FallbackVisionPrompt
        /\ \A k \in CallsOf(r, "thinking") : Len(calls[r][k].input) = ServerMinImages

\* C3: whenever the Reasoning-stage call of a request exists, every
\* Vision-stage call of that request (one per image in src/server.js, the
\* one batched call in src/api/analyze.js) was issued before it and has
\* completed, and nothing was issued after it.
C3_ReasoningAfterVision ==
    \A r \in DOMAIN req :
        \A k \in CallsOf(r, "thinking") :
            /\ k = Len(calls[r])
            /\ \A j \in 1..(k - 1) :
                  calls[r][j].step = "vision" /\ calls[r][j].state = "resolved"
            /\ cfg.variant = "server" =>
                  /\ k - 1 = Images(r)
                  /\ \A j \in 1..(k - 1) : calls[r][j].idx = j
            /\ cfg.variant = "api" => k - 1 = 1

\* the step that issues the Reasoning-stage call starts from a state in
\* which no call of the request is in flight
C3_IssuedWhenIdle ==
    [][\A r \in DOMAIN req :
          (CallsOf(r, "thinking") = {} /\ CallsOf(r, "thinking")' # {}) =>
              \A j \in 1..Len(calls[r]) : Settled(calls[r][j])]_vars

C3_Witness ==
    \E r \in DOMAIN req :
        /\ cfg.variant = "server"
        /\ Images(r) = MaxImages
        /\ CallsOf(r, "thinking") = {MaxImages + 1}
        /\ calls[r][MaxImages + 1].state = "inflight"

\* an outbound call that failed: its promise was rejected
Failed(c) == c.state = "rejected"

\* C4: a failed outbound call is the last call of its request (no retry, no
\* further Vision-stage call, no Reasoning-stage call), a response that was
\* already read to its end with a non-2xx status or a non-JSON body is a
\* failed call, and once the handler has answered, the answer is 500 with
\* only an error message.
C4_FailureAborts ==
    \A r \in DOMAIN req :
        /\ \A k \in 1..Len(calls[r]) :
              Failed(calls[r][k]) =>
                  /\ k = Len(calls[r])
                  /\ Answered(r) =>
                        /\ resp[r] = <<Answer(r)>>
                        /\ Answer(r).status = 500
                        /\ IsErrorAnswer(Answer(r))
                        /\ Answer(r).body.error = calls[r][k].result
        /\ wire[r].call # 0 =>
              ((wire[r].status \notin 200..299 \/ ~wire[r].raw.valid)
                   => Failed(calls[r][wire[r].call]))

C4_Witness ==
    \E r \in DOMAIN req :
        /\ cfg.variant = "server"
        /\ Len(calls[r]) = 2
        /\ calls[r][1].state = "resolved"
        /\ calls[r][2].step = "vision" /\ Failed(calls[r][2])
        /\ Answered(r) /\ Answer(r).status = 500

\* C5: at most one outbound call of a request is in flight at any time.
C5_OneInFlight ==
    \A r \in DOMAIN req :
        Cardinality({k \in 1..Len(calls[r]) : calls[r][k].state = "inflight"}) <= 1

\* a call is issued only when every earlier call of the request has settled
C5_IssuedAfterSettle ==
    [][\A r \in DOMAIN req :
          Len(calls[r])' > Len(calls[r]) =>
              \A j \in 1..Len(calls[r]) : Settled(calls[r][j])]_vars

\* calls of different requests in flight at the same time
C5_Witness ==
    \E r1, r2 \in DOMAIN req :
        /\ r1 # r2
        /\ Len(calls[r1]) >= 2 /\ calls[r1][Len(calls[r1])].state = "inflight"
        /\ Len(calls[r2]) >= 2 /\ calls[r2][Len(calls[r2])].state = "inflight"

\* the fragments the claim lists, in its order: output_text, then the text
\* of every content part of every output item, then the message content of
\* every choice; a fragment is found when it is a non-empty string
C6_Strings(vals) == SelectSeq(vals, LAMBDA v : v.t = "string" /\ v.v # <<>>)

RECURSIVE C6_Concat(_)
C6_Concat(ss) == IF ss = <<>> THEN <<>> ELSE ss[1] \o C6_Concat(Tail(ss))

C6_ItemFragments(item) ==
    LET content == OptGet(item, "content")
    IN IF IsArray(content)
       THEN C6_Strings([j \in 1..Len(content.v) |-> OptGet(content.v[j], "text")])
       ELSE <<>>

C6_Fragments(d) ==
    LET output == OptGet(d, "output")
        choices == OptGet(d, "choices")
    IN C6_Strings(<<OptGet(d, "output_text")>>)
       \o (IF IsArray(output)
           THEN C6_Concat([i \in 1..Len(output.v) |-> C6_ItemFragments(output.v[i])])
           ELSE <<>>)
       \o (IF IsArray(choices)
           THEN C6_Strings([i \in 1..Len(choices.v) |->
                               OptGet(OptGet(choices.v[i], "message"), "content")])
           ELSE <<>>)

RECURSIVE C6_Lines(_)
C6_Lines(frags) ==
    IF frags = <<>> THEN <<>>
    ELSE IF Len(frags) = 1 THEN frags[1].v
    ELSE frags[1].v \o <<LF>> \o C6_Lines(Tail(frags))

\* C6 as stated: extractTextFromResponse never throws, and returns the found
\* fragments in the listed order, joined by a line break and trimmed (the
\* empty string when there is none).
C6_AsStated ==
    ex.done =>
        /\ ~ex.out.threw
        /\ ex.out.text = Trim(C6_Lines(C6_Fragments(ex.in)))

\* what the extractor does: it throws exactly when some output item has a
\* truthy content that is not an array, and returns the claimed string
\* otherwise
C6_NonArrayContent(d) ==
    LET output == OptGet(d, "output")
    IN /\ IsArray(output)
       /\ \E i \in 1..Len(output.v) :
             LET content == OptGet(output.v[i], "content")
             IN Truthy(content) /\ ~IsArray(content)

C6_TotalOnArrayContent ==
    ex.done =>
        /\ ex.out.threw <=> C6_NonArrayContent(ex.in)
        /\ ~ex.out.threw => ex.out.text = Trim(C6_Lines(C6_Fragments(ex.in)))

\* C7: a response read to its end with a status outside [200,300) is
\* rejected with the message that carries the status and the raw body,
\* without JSON.parse being reached, whether or not the body is JSON;
\* JSON.parse is reached only for statuses in [200,300).
C7_NonOkNeverParsed ==
    \A r \in DOMAIN req :
        wire[r].call # 0 =>
            LET w == wire[r]
            IN /\ w.status \notin 200..299 =>
                     /\ ~w.parsed
                     /\ w.state = "rejected"
                     /\ w.result = ErrArkStatus(w.status, w.raw)
                     /\ calls[r][w.call].state = "rejected"
                     /\ calls[r][w.call].result = ErrArkStatus(w.status, w.raw)
               /\ w.parsed => w.status \in 200..299
               /\ (w.status \in 200..299 /\ ~w.raw.valid) =>
                     w.parsed /\ w.result = ErrArkNonJson

C7_Witness ==
    \E r \in DOMAIN req :
        /\ wire[r].call # 0
        /\ wire[r].status = 300
        /\ wire[r].raw = RawHello
        /\ calls[r][wire[r].call].result = ErrArkStatus(300, RawHello)
        /\ Answered(r) /\ Answer(r).status = 500

\* C8 as stated: a POST whose credential or model identifier is missing is
\* answered with a configuration error and makes no outbound call.
C8_AsStated ==
    \A r \in DOMAIN req :
        (IsPost(r) /\ ~(KeyConfigured(r) /\ ModelsConfigured(r))) =>
            /\ calls[r] = <<>>
            /\ Answered(r) =>
                  /\ IsErrorAnswer(Answer(r))
                  /\ Answer(r).body.error \in {ErrMissingKey, ErrMissingModel}

\* the answer of src/server.js when the credential is there and no model
\* identifier is: the body and the image count are checked first
C8_ServerAnswer(r) ==
    LET p == parseJsonBody(req[r].body)
    IN [status |-> 400, type |-> "json",
        body |-> [error |-> IF ~p.ok THEN p.err
                            ELSE IF ~InBound(r) THEN ErrImageCount
                            ELSE ErrMissingModel]]

\* C8 amended: such a request makes no outbound call and is answered with
\* one error: the configuration error, except that src/server.js, when
\* only the model identifier is missing, reports a malformed body or an
\* out-of-bound image count first.
C8_NoCallWithoutConfig ==
    \A r \in DOMAIN req :
        (IsPost(r) /\ ~(KeyConfigured(r) /\ ModelsConfigured(r))) =>
            /\ calls[r] = <<>>
            /\ Answered(r) =>
                  /\ resp[r] = <<Answer(r)>>
                  /\ ~KeyConfigured(r) =>
                        Answer(r) = [status |-> 500, type |-> "json",
                                     body |-> [error |-> ErrMissingKey]]
                  /\ (KeyConfigured(r) /\ cfg.variant # "server") =>
                        Answer(r) = [status |-> 500, type |-> "json",
                                     body |-> [error |-> ErrMissingModel]]
                  /\ (KeyConfigured(r) /\ cfg.variant = "server") =>
                        Answer(r) = C8_ServerAnswer(r)

C8_Witness ==
    \E r \in DOMAIN req :
        /\ IsPost(r) /\ req[r].body.kind = "json" /\ InBound(r)
        /\ KeyConfigured(r) /\ ~ModelsConfigured(r)
        /\ Answered(r) /\ Answer(r).body.error = ErrMissingModel
        /\ calls[r] = <<>>

\* the failure class of an error message and the status the claim gives it
FailureClass(err) ==
    CASE err \in {ErrImageCount, ErrBodyNotJson, ErrBodyTooLarge} -> "validation"
      [] err \in {ErrMissingKey, ErrMissingModel} -> "configuration"
      [] err = ErrMethod -> "method"
      [] OTHER -> "upstream"

ClassStatus(class) ==
    CASE class = "validation" -> 400
      [] class = "method" -> 405
      [] OTHER -> 500

\* C9 as stated: every response to a request addressed to the analyze
\* endpoint is 200 {resultText} or a JSON {error} whose status is that of
\* its failure class, a wrong method being answered 405.
C9_AsStated ==
    \A r \in DOMAIN req :
        \A i \in 1..Len(resp[r]) :
            LET a == resp[r][i]
            IN /\ a.type = "json"
               /\ \/ a.status = 200 /\ IsResultAnswer(a)
                  \/ /\ IsErrorAnswer(a)
                     /\ a.status = ClassStatus(FailureClass(a.body.error))
               /\ ~IsPost(r) => a.status = 405

\* what holds: the serverless handlers answer as claimed; src/server.js
\* does so for a POST unless the model identifier is missing
C9_ExceptServerCases ==
    \A r \in DOMAIN req :
        \A i \in 1..Len(resp[r]) :
            LET a == resp[r][i]
            IN (cfg.variant # "server"
                  \/ (IsPost(r) /\ a.body # [error |-> ErrMissingModel])) =>
                   /\ a.type = "json"
                   /\ \/ a.status = 200 /\ IsResultAnswer(a)
                      \/ /\ IsErrorAnswer(a)
                         /\ a.status = ClassStatus(FailureClass(a.body.error))
                   /\ ~IsPost(r) => a.status = 405

\* C10 as stated: when no reasoning model is supplied (by the request or by
\* ARK_THINKING_MODEL), the Reasoning-stage call uses the model of the
\* Vision-stage calls of the same request.
C10_AsStated ==
    \A r \in DOMAIN req :
        (req[r].body.thinkingModel = Unset /\ cfg.envThinking = Unset) =>
            \A k \in CallsOf(r, "thinking") : \A j \in CallsOf(r, "vision") :
                calls[r][k].model = calls[r][j].model

\* what holds: the fallback is exact in the serverless handlers, and in
\* src/server.js when "API key.txt" names no model or the vision model is
\* the file's model
C10_ExceptFileModel ==
    \A r \in DOMAIN req :
        (/\ req[r].body.thinkingModel = Unset /\ cfg.envThinking = Unset
         /\ \/ cfg.variant # "server"
            \/ getModelFromFile(cfg) = Unset
            \/ ServerVisionModel(cfg, req[r].body) = getModelFromFile(cfg)) =>
            \A k \in CallsOf(r, "thinking") : \A j \in CallsOf(r, "vision") :
                calls[r][k].model = calls[r][j].model

\* a request that src/server.js hands to handleAnalyze
HandledByAnalyze(r) == Serving(r) /\ cfg.variant = "server" /\ IsPost(r)

====
